---- MODULE Spec2Model ----
(***************************************************************************)
(* A model of the TransIP DNS01 solver of cert-manager-webhook-transip     *)
(* (main.go): the solver's Present and CleanUp handlers, the credential    *)
(* resolution of NewTransipClient and the two name helpers                 *)
(* extractRecordName and extractDomainName.                                *)
(*                                                                         *)
(* A string is a sequence of one-character strings, so that               *)
(* strings.Index, slicing and util.UnFqdn are computed as the code         *)
(* computes them.                                                          *)
(***************************************************************************)
EXTENDS Integers, Sequences, FiniteSets, Bags, TLC

VARIABLES
    nm,        \* the name-resolution run: the helpers applied to one input
    records,   \* the provider: hosted domain -> bag of DNS entries
    inv,       \* the solver invocations (Present / CleanUp calls)
    ncalls     \* how many invocations the caller has issued so far

vars == <<nm, records, inv, ncalls>>

----------------------------------------------------------------------------
(* Bounds of the model.                                                    *)

\* longest relative name drawn for the name helpers
MaxRelLen == 4
\* longest zone (without its trailing dot) drawn for the name helpers
MaxZoneLen == 3
\* invocations the caller issues one after another
MaxCalls == 2
\* entries in the provider's record set before the first invocation
MaxInitRecords == 2
\* entries of the two concurrent challenges already in the record set
MaxPairRecords == 1

----------------------------------------------------------------------------
(* Strings.                                                                *)

Dot == "."

Letters == {"a", "b"}

\* a 0-based position i of s where sub starts
HasAt(s, sub, i) ==
    /\ i + Len(sub) <= Len(s)
    /\ SubSeq(s, i + 1, i + Len(sub)) = sub

\* strings.Index: the 0-based index of the first instance of sub in s, or -1
Index(s, sub) ==
    IF \E i \in 0..Len(s) : HasAt(s, sub, i)
    THEN CHOOSE i \in 0..Len(s) :
            /\ HasAt(s, sub, i)
            /\ \A j \in 0..(i - 1) : ~HasAt(s, sub, j)
    ELSE -1

\* util.UnFqdn: the name without one trailing dot
UnFqdn(name) ==
    IF Len(name) # 0 /\ name[Len(name)] = Dot
    THEN SubSeq(name, 1, Len(name) - 1)
    ELSE name

\* the name with a trailing dot, as a DNS answer's owner name carries it
ToFqdn(name) ==
    IF Len(name) # 0 /\ name[Len(name)] = Dot THEN name ELSE Append(name, Dot)

\* well-formed names of exactly n characters: letters and dots, no empty label
NamesOfLen(n) ==
    { s \in [1..n -> Letters \cup {Dot}] :
        /\ s[1] # Dot
        /\ s[n] # Dot
        /\ \A i \in 1..(n - 1) : ~(s[i] = Dot /\ s[i + 1] = Dot) }

NamesUpTo(n) == UNION { NamesOfLen(k) : k \in 1..n }

\* the 0-based offsets at which a label of the name starts (dns.Split)
LabelStarts(name) ==
    { i \in 0..(Len(name) - 1) :
        /\ name[i + 1] # Dot
        /\ (i = 0 \/ name[i] = Dot) }

----------------------------------------------------------------------------
(* The name helpers.                                                       *)

\* extractRecordName searching for the last instance of "."+domain instead
\* of the first (strings.LastIndex)
extractRecordName_Last(fqdn, domain) ==
    LET sub == <<Dot>> \o domain
        hits == { i \in 0..Len(fqdn) : HasAt(fqdn, sub, i) }
    IN  IF hits # {}
        THEN SubSeq(fqdn, 1, CHOOSE i \in hits : \A j \in hits : j <= i)
        ELSE UnFqdn(fqdn)

\* extractRecordName: fqdn up to the first instance of "."+domain
extractRecordName(fqdn, domain) ==
    LET idx == Index(fqdn, <<Dot>> \o domain)
    IN  IF idx # -1 THEN SubSeq(fqdn, 1, idx) ELSE UnFqdn(fqdn)

\* util.FindZoneByFqdn: the zone discovery walks up the labels of the name
\* asking for an SOA record; it fails, or answers with the owner name (with
\* its trailing dot) of the SOA found at one of the labels
FindZoneByFqdn(zone) ==
    {[err |-> TRUE, authZone |-> <<>>]} \cup
    { [err |-> FALSE, authZone |-> ToFqdn(SubSeq(zone, i + 1, Len(zone)))] :
        i \in LabelStarts(zone) }

\* extractDomainName: the discovered zone without its trailing dot, or the
\* caller's zone as it is when the discovery fails
extractDomainName(zone, found) ==
    IF found.err THEN zone ELSE UnFqdn(found.authZone)

----------------------------------------------------------------------------
(* The name-resolution run: the two helpers applied to a name              *)
(* <relative>.<zone>. and the zone the caller believes authoritative.      *)

NoName == <<>>

NameInputs ==
    { [rel |-> r, zone |-> z] : r \in NamesUpTo(MaxRelLen), z \in NamesUpTo(MaxZoneLen) }

InitName ==
    /\ \E i \in NameInputs :
         nm = [pc |-> "start",
               fqdn |-> i.rel \o <<Dot>> \o i.zone \o <<Dot>>,
               zone |-> Append(i.zone, Dot),
               found |-> [err |-> TRUE, authZone |-> <<>>],
               domain |-> NoName,
               name |-> NoName]
    /\ records = << >>
    /\ inv = << >>
    /\ ncalls = 0

ResolveZone ==
    /\ nm.pc = "start"
    /\ \E found \in FindZoneByFqdn(nm.zone) :
         nm' = [nm EXCEPT !.pc = "resolved",
                          !.found = found,
                          !.domain = extractDomainName(nm.zone, found)]
    /\ UNCHANGED <<records, inv, ncalls>>

ExtractName ==
    /\ nm.pc = "resolved"
    /\ nm' = [nm EXCEPT !.pc = "named",
                        !.name = extractRecordName(nm.fqdn, nm.domain)]
    /\ UNCHANGED <<records, inv, ncalls>>

NextName == ResolveZone \/ ExtractName

SpecName == InitName /\ [][NextName]_vars

----------------------------------------------------------------------------
(* The challenge request, its configuration and the secret store.          *)
(* Names (ResolvedFQDN, ResolvedZone, domain names, record names) are      *)
(* character sequences; keys, credentials and identifiers are atoms.       *)

HostedName == <<"a", ".", "b">>

\* the domains of the provider account: a provider call is served only for
\* a domain argument that is exactly one of them
HostedDomains == {HostedName}

\* the Secret objects of the cluster: <<namespace, name>> -> data
SecretStore ==
    (<<"ns1", "creds">> :> ("privateKey" :> "PEM-S")) @@
    (<<"ns2", "creds">> :> ("privateKey" :> "PEM-T")) @@
    (<<"ns1", "only1">> :> ("privateKey" :> "PEM-U"))

\* base64 texts of the configuration and the bytes they decode to; any other
\* text is not base64
Base64 == ("" :> "") @@ ("UEVNLUk=" :> "PEM-I")

\* a configuration document: well-formed JSON or not, and the members it has
JSONDoc(fields) == [wellFormed |-> TRUE, fields |-> fields]

NotJSON == [wellFormed |-> FALSE, fields |-> << >>]

\* ch.Config = nil
NilJSON == [isNil |-> TRUE, raw |-> NotJSON]

SomeJSON(raw) == [isNil |-> FALSE, raw |-> raw]

InlineDoc(ttl) ==
    JSONDoc(("accountName" :> "acct") @@ ("privateKey" :> "UEVNLUk=") @@
            ("privateKeySecretRef" :> [Name |-> "creds", Key |-> "privateKey"]) @@
            ("ttl" :> ttl))

RefDoc(name, key) ==
    JSONDoc(("accountName" :> "acct") @@
            ("privateKeySecretRef" :> [Name |-> name, Key |-> key]) @@
            ("ttl" :> 60))

ChallengeRequest(fqdn, zone, key, ns, cfg) ==
    [ResolvedFQDN |-> fqdn, ResolvedZone |-> zone, Key |-> key,
     ResourceNamespace |-> ns, Config |-> cfg]

FqdnX == <<"x", ".", "a", ".", "b", ".">>
FqdnY == <<"y", ".", "a", ".", "b", ".">>
ZoneFq == <<"a", ".", "b", ".">>

\* the requests the caller may send
Requests ==
    { ChallengeRequest(FqdnX, ZoneFq, "k1", "ns1", SomeJSON(InlineDoc(t))) : t \in {60, 300} }
    \cup
    { ChallengeRequest(FqdnX, ZoneFq, "k2", "ns1", SomeJSON(InlineDoc(60))),
      ChallengeRequest(FqdnY, ZoneFq, "k1", "ns1", SomeJSON(InlineDoc(60))),
      ChallengeRequest(FqdnX, HostedName, "k1", "ns1", SomeJSON(InlineDoc(60))) }
    \cup
    { ChallengeRequest(FqdnX, ZoneFq, "k1", "ns1", SomeJSON(RefDoc("creds", "other"))) }
    \cup
    { ChallengeRequest(FqdnX, ZoneFq, "k1", "ns2", SomeJSON(RefDoc(n, "privateKey"))) :
        n \in {"creds", "only1"} }
    \cup
    { ChallengeRequest(FqdnX, ZoneFq, "k1", "ns1", c) : c \in {NilJSON, SomeJSON(NotJSON)} }

----------------------------------------------------------------------------
(* Configuration decoding.                                                 *)

ZeroConfig ==
    [AccountName |-> "", PrivateKey |-> "",
     PrivateKeySecretRef |-> [Name |-> "", Key |-> ""], TTL |-> 0]

Member(doc, name, zero) ==
    IF name \in DOMAIN doc.fields THEN doc.fields[name] ELSE zero

\* json.Unmarshal into a transipDNSProviderConfig: an absent member leaves
\* the field at its zero value, privateKey is decoded from base64
jsonUnmarshal(raw) ==
    IF ~raw.wellFormed \/ Member(raw, "privateKey", "") \notin DOMAIN Base64
    THEN [err |-> TRUE, cfg |-> ZeroConfig]
    ELSE [err |-> FALSE,
          cfg |-> [AccountName |-> Member(raw, "accountName", ""),
                   PrivateKey |-> Base64[Member(raw, "privateKey", "")],
                   PrivateKeySecretRef |->
                       Member(raw, "privateKeySecretRef", [Name |-> "", Key |-> ""]),
                   TTL |-> Member(raw, "ttl", 0)]]

\* loadConfig that swallows the decoding error (a faulty variant)
loadConfig_Swallow(cfgJSON) ==
    IF cfgJSON.isNil
    THEN [err |-> FALSE, cfg |-> ZeroConfig]
    ELSE [err |-> FALSE, cfg |-> jsonUnmarshal(cfgJSON.raw).cfg]

\* loadConfig: the zero configuration for no document, else the decoded one
loadConfig(cfgJSON) ==
    IF cfgJSON.isNil
    THEN [err |-> FALSE, cfg |-> ZeroConfig]
    ELSE jsonUnmarshal(cfgJSON.raw)

----------------------------------------------------------------------------
(* Credential resolution.                                                  *)

Step(name, ok, arg) == [step |-> name, ok |-> ok, arg |-> arg]

\* Secrets(ns).Get(name): the Secret, or an error when it does not exist or
\* the API server does not answer
SecretsGet(ns, name, apiUp) ==
    IF apiUp /\ <<ns, name>> \in DOMAIN SecretStore
    THEN [err |-> FALSE, data |-> SecretStore[<<ns, name>>]]
    ELSE [err |-> TRUE, data |-> << >>]

\* the outcome of NewTransipClient: whether it failed, the credential it
\* handed to gotransip.NewClient and the external steps it took
ClientOutcome(err, key, log) == [err |-> err, privateKey |-> key, log |-> log]

\* gotransip.NewClient, which succeeds or fails (clientOk)
ClientStep(cfg, privateKey, clientOk) ==
    Step("client", clientOk, <<cfg.AccountName, privateKey>>)

\* NewTransipClient that reads the secret whenever one is referenced
\* (a faulty variant)
NewTransipClient_SecretFirst(ch, cfg, apiUp, clientOk) ==
    LET ref == cfg.PrivateKeySecretRef
        secret == SecretsGet(ch.ResourceNamespace, ref.Name, apiUp)
        get == Step("secret", ~secret.err, <<ch.ResourceNamespace, ref.Name, ref.Key>>)
    IN  IF ref.Name = ""
        THEN ClientOutcome(~clientOk, cfg.PrivateKey,
                           <<ClientStep(cfg, cfg.PrivateKey, clientOk)>>)
        ELSE IF secret.err \/ ref.Key \notin DOMAIN secret.data
        THEN ClientOutcome(TRUE, "", <<get>>)
        ELSE ClientOutcome(~clientOk, secret.data[ref.Key],
                           <<get, ClientStep(cfg, secret.data[ref.Key], clientOk)>>)

\* NewTransipClient that goes on with an empty key when the secret lacks
\* the referenced key (a faulty variant)
NewTransipClient_NoKeyCheck(ch, cfg, apiUp, clientOk) ==
    LET ref == cfg.PrivateKeySecretRef
        secret == SecretsGet(ch.ResourceNamespace, ref.Name, apiUp)
        get == Step("secret", ~secret.err, <<ch.ResourceNamespace, ref.Name, ref.Key>>)
        key == IF ref.Key \in DOMAIN secret.data THEN secret.data[ref.Key] ELSE ""
    IN  IF cfg.PrivateKey # ""
        THEN ClientOutcome(~clientOk, cfg.PrivateKey,
                           <<ClientStep(cfg, cfg.PrivateKey, clientOk)>>)
        ELSE IF secret.err
        THEN ClientOutcome(TRUE, "", <<get>>)
        ELSE ClientOutcome(~clientOk, key, <<get, ClientStep(cfg, key, clientOk)>>)

\* NewTransipClient: the inline key when there is one, else the referenced
\* key of the referenced secret in the challenge's namespace
NewTransipClient(ch, cfg, apiUp, clientOk) ==
    LET ref == cfg.PrivateKeySecretRef
        secret == SecretsGet(ch.ResourceNamespace, ref.Name, apiUp)
        get == Step("secret", ~secret.err, <<ch.ResourceNamespace, ref.Name, ref.Key>>)
    IN  IF cfg.PrivateKey # ""
        THEN ClientOutcome(~clientOk, cfg.PrivateKey,
                           <<ClientStep(cfg, cfg.PrivateKey, clientOk)>>)
        ELSE IF secret.err
        THEN ClientOutcome(TRUE, "", <<get>>)
        ELSE IF ref.Key \notin DOMAIN secret.data
        THEN ClientOutcome(TRUE, "", <<[get EXCEPT !.ok = FALSE]>>)
        ELSE ClientOutcome(~clientOk, secret.data[ref.Key],
                           <<get, ClientStep(cfg, secret.data[ref.Key], clientOk)>>)

----------------------------------------------------------------------------
(* DNS entries.                                                            *)

DNSEntry(name, expire, type, content) ==
    [Name |-> name, Expire |-> expire, Type |-> type, Content |-> content]

\* NewDNSEntryFromChallenge that leaves the proof value out (a faulty variant)
NewDNSEntryFromChallenge_NoContent(ch, cfg, domainName) ==
    DNSEntry(extractRecordName(ch.ResolvedFQDN, domainName), cfg.TTL, "TXT", "")

NewDNSEntryFromChallenge(ch, cfg, domainName) ==
    DNSEntry(extractRecordName(ch.ResolvedFQDN, domainName), cfg.TTL, "TXT", ch.Key)

\* s == acmeDnsEntry that compares the name and the type only (a faulty variant)
SameEntry_NameOnly(s, t) ==
    /\ s.Name = t.Name
    /\ s.Type = t.Type

\* s == acmeDnsEntry on domain.DNSEntry: all four fields are equal
SameEntry(s, t) ==
    /\ s.Name = t.Name
    /\ s.Expire = t.Expire
    /\ s.Type = t.Type
    /\ s.Content = t.Content

\* the range loop of Present that finds nothing (a faulty variant)
Listed_Never(dnsEntries, acmeDnsEntry) == FALSE

\* the range loops of Present and CleanUp: some listed entry equals the target
Listed(dnsEntries, acmeDnsEntry) ==
    \E s \in BagToSet(dnsEntries) : SameEntry(s, acmeDnsEntry)

----------------------------------------------------------------------------
(* The provider (the TransIP API behind domain.Repository).  Every call    *)
(* either fails, leaving the record set as it is, or is served.            *)

Serves(domainName) == domainName \in HostedDomains

\* the entries the record set of the hosted domain may hold at the start
InitEntries ==
    { DNSEntry(<<"x">>, 60, "TXT", k) : k \in {"k1", "k2"} }
    \cup { DNSEntry(<<"x">>, 300, "TXT", "k1"), DNSEntry(<<"x">>, 60, "A", "k1") }

InitRecordSets ==
    { SetToBag(es) : es \in { e \in SUBSET InitEntries : Cardinality(e) <= MaxInitRecords } }

\* AddDNSEntry served: one more entry in the domain's record set
ProviderAdd(domainName, entry) ==
    [records EXCEPT ![domainName] = @ (+) SetToBag({entry})]

\* RemoveDNSEntry served: the entry equal to the argument in all its fields
\* leaves the domain's record set
ProviderRemove(domainName, entry) ==
    [records EXCEPT ![domainName] = @ (-) SetToBag({entry})]

----------------------------------------------------------------------------
(* Solver invocations.  An invocation is one call of Present or CleanUp;   *)
(* it is cut at its calls to the provider, which is where invocations of   *)
(* concurrent challenges interleave.                                       *)

NoEntry == DNSEntry(NoName, 0, "", "")

NoRequest == ChallengeRequest(NoName, NoName, "", "", NilJSON)

Idle ==
    [op |-> "none", req |-> NoRequest, pc |-> "idle", domainName |-> NoName,
     cfg |-> ZeroConfig, privateKey |-> "", acmeDnsEntry |-> NoEntry,
     err |-> "none", log |-> << >>, pre |-> << >>, post |-> << >>]

\* the caller invokes op(req)
Invoke(op, req) ==
    [Idle EXCEPT !.op = op, !.req = req, !.pc = "start", !.pre = records]

\* return err (or nil) to the caller
Return(v, failed, log) ==
    [v EXCEPT !.pc = "done", !.err = IF failed THEN "error" ELSE "nil",
              !.log = @ \o log, !.post = records']

\* Present / CleanUp up to the decoded configuration: extractDomainName and
\* loadConfig
Begin(i) ==
    /\ inv[i].pc = "start"
    /\ UNCHANGED <<nm, records, ncalls>>
    /\ \E found \in FindZoneByFqdn(inv[i].req.ResolvedZone) :
         LET v == inv[i]
             domainName == extractDomainName(v.req.ResolvedZone, found)
             decoded == IF v.req.Config.isNil THEN [err |-> FALSE]
                        ELSE jsonUnmarshal(v.req.Config.raw)
             loaded == loadConfig(v.req.Config)
             log == << Step("zone", ~found.err, <<v.req.ResolvedZone, found.authZone>>),
                       Step("config", ~decoded.err, << >>) >>
             w == [v EXCEPT !.domainName = domainName]
         IN  inv' = [inv EXCEPT ![i] =
                        IF loaded.err
                        THEN Return(w, TRUE, log)
                        ELSE [w EXCEPT !.pc = "client", !.cfg = loaded.cfg,
                                       !.log = @ \o log]]

\* Present / CleanUp: client, err := c.NewTransipClient(ch, cfg)
NewClient(i) ==
    /\ inv[i].pc = "client"
    /\ UNCHANGED <<nm, records, ncalls>>
    /\ \E apiUp \in BOOLEAN, clientOk \in BOOLEAN :
         LET v == inv[i]
             out == NewTransipClient(v.req, v.cfg, apiUp, clientOk)
         IN  inv' = [inv EXCEPT ![i] =
                        IF out.err
                        THEN Return(v, TRUE, out.log)
                        ELSE [v EXCEPT !.pc = "list", !.privateKey = out.privateKey,
                                       !.log = @ \o out.log]]

\* Present / CleanUp: domainRepo.GetDNSEntries(domainName), then the target
\* entry and the loop over the listed entries
GetDNSEntries(i) ==
    /\ inv[i].pc = "list"
    /\ UNCHANGED <<nm, records, ncalls>>
    /\ \E up \in BOOLEAN :
         LET v == inv[i]
             ok == up /\ Serves(v.domainName)
             call == << Step("list", ok, <<v.domainName, NoEntry>>) >>
             dnsEntries == IF ok THEN records[v.domainName] ELSE EmptyBag
             acmeDnsEntry == NewDNSEntryFromChallenge(v.req, v.cfg, v.domainName)
             w == [v EXCEPT !.acmeDnsEntry = acmeDnsEntry]
         IN  inv' = [inv EXCEPT ![i] =
                        IF ~ok THEN Return(v, TRUE, call)
                        ELSE IF v.op = "Present"
                        THEN IF Listed(dnsEntries, acmeDnsEntry)
                             THEN Return(w, FALSE, call)
                             ELSE [w EXCEPT !.pc = "add", !.log = @ \o call]
                        ELSE IF Listed(dnsEntries, acmeDnsEntry)
                             THEN [w EXCEPT !.pc = "remove", !.log = @ \o call]
                             ELSE Return(w, FALSE, call)]

\* Present: domainRepo.AddDNSEntry(domainName, acmeDnsEntry)
AddDNSEntry(i) ==
    /\ inv[i].pc = "add"
    /\ \E up \in BOOLEAN :
         LET v == inv[i]
             ok == up /\ Serves(v.domainName)
             call == << Step("add", ok, <<v.domainName, v.acmeDnsEntry>>) >>
         IN  /\ records' = IF ok THEN ProviderAdd(v.domainName, v.acmeDnsEntry)
                           ELSE records
             /\ inv' = [inv EXCEPT ![i] = Return(v, ~ok, call)]
    /\ UNCHANGED <<nm, ncalls>>

\* CleanUp that removes every listed entry of the target's name and type
\* (a faulty variant)
RemoveDNSEntry_ByName(i) ==
    /\ inv[i].pc = "remove"
    /\ \E up \in BOOLEAN :
         LET v == inv[i]
             ok == /\ up
                   /\ Serves(v.domainName)
                   /\ BagIn(v.acmeDnsEntry, records[v.domainName])
             call == << Step("remove", ok, <<v.domainName, v.acmeDnsEntry>>) >>
             named == { s \in BagToSet(records[v.domainName]) :
                          SameEntry_NameOnly(s, v.acmeDnsEntry) }
         IN  /\ records' = IF ok
                           THEN [records EXCEPT ![v.domainName] = @ (-) SetToBag(named)]
                           ELSE records
             /\ inv' = [inv EXCEPT ![i] = Return(v, ~ok, call)]
    /\ UNCHANGED <<nm, ncalls>>

\* CleanUp that returns nil whatever RemoveDNSEntry returns (a faulty variant)
RemoveDNSEntry_IgnoreErr(i) ==
    /\ inv[i].pc = "remove"
    /\ \E up \in BOOLEAN :
         LET v == inv[i]
             ok == /\ up
                   /\ Serves(v.domainName)
                   /\ BagIn(v.acmeDnsEntry, records[v.domainName])
             call == << Step("remove", ok, <<v.domainName, v.acmeDnsEntry>>) >>
         IN  /\ records' = IF ok THEN ProviderRemove(v.domainName, v.acmeDnsEntry)
                           ELSE records
             /\ inv' = [inv EXCEPT ![i] = Return(v, FALSE, call)]
    /\ UNCHANGED <<nm, ncalls>>

\* CleanUp: domainRepo.RemoveDNSEntry(domainName, acmeDnsEntry); the
\* provider serves the call only while it holds the entry
RemoveDNSEntry(i) ==
    /\ inv[i].pc = "remove"
    /\ \E up \in BOOLEAN :
         LET v == inv[i]
             ok == /\ up
                   /\ Serves(v.domainName)
                   /\ BagIn(v.acmeDnsEntry, records[v.domainName])
             call == << Step("remove", ok, <<v.domainName, v.acmeDnsEntry>>) >>
         IN  /\ records' = IF ok THEN ProviderRemove(v.domainName, v.acmeDnsEntry)
                           ELSE records
             /\ inv' = [inv EXCEPT ![i] = Return(v, ~ok, call)]
    /\ UNCHANGED <<nm, ncalls>>

\* one step of invocation i
Run(i) ==
    \/ Begin(i)
    \/ NewClient(i)
    \/ GetDNSEntries(i)
    \/ AddDNSEntry(i)
    \/ RemoveDNSEntry(i)

----------------------------------------------------------------------------
(* The caller issuing invocations one after another: slot 2 holds the      *)
(* invocation under way or the last one returned, slot 1 the one before.   *)

Init ==
    /\ nm = [pc |-> "off"]
    /\ \E b \in InitRecordSets : records = [d \in HostedDomains |-> b]
    /\ inv = <<Idle, Idle>>
    /\ ncalls = 0

Call ==
    /\ inv[2].pc \in {"idle", "done"}
    /\ ncalls < MaxCalls
    /\ \E op \in {"Present", "CleanUp"}, req \in Requests :
         inv' = <<inv[2], Invoke(op, req)>>
    /\ ncalls' = ncalls + 1
    /\ UNCHANGED <<nm, records>>

Next ==
    \/ Call
    \/ Run(2)

Spec == Init /\ [][Next]_vars

----------------------------------------------------------------------------
(* Two challenges A and B for the same name with different proof values,   *)
(* presented and cleaned up concurrently: invocation 1 is Present(A),      *)
(* 2 is Present(B), 3 is CleanUp(A) and 4 is CleanUp(B); their steps       *)
(* interleave in every order.                                              *)

\* A and B: the same name and zone, values k1 and k2, usable credentials
ChallengePairs ==
    { p \in Requests \X Requests :
        /\ p[1].ResolvedFQDN = p[2].ResolvedFQDN
        /\ p[1].ResolvedZone = p[2].ResolvedZone
        /\ p[1].Key = "k1"
        /\ p[2].Key = "k2"
        /\ jsonUnmarshal(p[1].Config.raw).cfg.PrivateKey # "" }

\* the entry a request is answered with in the hosted domain
TargetOf(req) ==
    NewDNSEntryFromChallenge(req, jsonUnmarshal(req.Config.raw).cfg, HostedName)

\* the record sets the two challenges may find: some of their own entries
\* are there already
PairRecordSets(p) ==
    { SetToBag(es) :
        es \in { e \in SUBSET {TargetOf(p[1]), TargetOf(p[2])} :
                    Cardinality(e) <= MaxPairRecords } }

InitConc ==
    /\ nm = [pc |-> "off"]
    /\ \E p \in ChallengePairs :
         /\ \E b \in PairRecordSets(p) : records = [d \in HostedDomains |-> b]
         /\ inv = << Invoke("Present", p[1]), Invoke("Present", p[2]),
                     Invoke("CleanUp", p[1]), Invoke("CleanUp", p[2]) >>
    /\ ncalls = 4

NextConc == \E i \in DOMAIN inv : Run(i)

SpecConc == InitConc /\ [][NextConc]_vars

----------------------------------------------------------------------------
(* The properties.                                                         *)

Slots == DOMAIN inv

Done(v) == v.pc = "done"

Succeeded(v) == Done(v) /\ v.err = "nil"

\* the positions of the log of v that hold a step of the given names
StepsOf(v, names) == { k \in DOMAIN v.log : v.log[k].step \in names }

ProviderCalls(v) == StepsOf(v, {"list", "add", "remove"})

\* the steps of v that may fail with an error
Fallible == {"config", "secret", "client", "list", "add", "remove"}

\* none of the external calls of v failed
NoCallFailed(v) == \A k \in StepsOf(v, Fallible) : v.log[k].ok

\* some call of v of that name was served by the provider
Served(v, name) == \E k \in StepsOf(v, {name}) : v.log[k].ok

\* v has computed its target entry, i.e. its list call was served
HasTarget(v) == Served(v, "list")

\* the record set of the domain v worked on, in a snapshot
In(snapshot, v) == snapshot[v.domainName]

\* C1: Present called twice in sequence with the same request, the first
\* returning nil and no external call of the second failing: the second
\* returns nil, issues no add call and leaves the record set as the first
\* left it, with exactly one entry equal to the target tuple.
C1_PresentTwice ==
    LET first == inv[1]
        second == inv[2]
    IN  (/\ first.op = "Present"
         /\ second.op = "Present"
         /\ first.req = second.req
         /\ Succeeded(first)
         /\ Done(second)
         /\ NoCallFailed(second))
        => /\ Succeeded(second)
           /\ StepsOf(second, {"add"}) = {}
           /\ second.post = first.post
           /\ CopiesIn(second.acmeDnsEntry, In(records, second)) = 1

\* the first Present added the entry, the second found it
C1_Witness ==
    /\ inv[1].op = "Present"
    /\ inv[2].op = "Present"
    /\ inv[1].req = inv[2].req
    /\ Served(inv[1], "add")
    /\ Succeeded(inv[1])
    /\ Succeeded(inv[2])
    /\ NoCallFailed(inv[2])

\* the (name, type, ttl, value) tuple of the request of v
TargetTuple(v) ==
    DNSEntry(extractRecordName(v.req.ResolvedFQDN, v.domainName),
             v.cfg.TTL, "TXT", v.req.Key)

\* C2: when CleanUp has returned, every entry other than the target tuple
\* of its request is in the record set as often as when CleanUp was called.
C2_CleanUpFrame ==
    \A i \in Slots :
        LET v == inv[i]
        IN  (v.op = "CleanUp" /\ Done(v))
            => \A d \in HostedDomains :
                 \A e \in BagToSet(v.pre[d]) \cup BagToSet(v.post[d]) :
                    \/ d = v.domainName /\ e = TargetTuple(v)
                    \/ CopiesIn(e, v.post[d]) = CopiesIn(e, v.pre[d])

\* CleanUp removed its target and an entry of the same name with another
\* value is still there
C2_Witness ==
    LET v == inv[2]
    IN  /\ v.op = "CleanUp"
        /\ Succeeded(v)
        /\ Served(v, "remove")
        /\ ~BagIn(TargetTuple(v), In(v.post, v))
        /\ \E e \in BagToSet(In(v.post, v)) :
             /\ e.Name = TargetTuple(v).Name
             /\ e.Type = "TXT"
             /\ e.Content # v.req.Key

\* C3: for challenges A and B of the same name with different values, in
\* every interleaving: the CleanUp of one never asks the provider to remove
\* an entry carrying the other's value, and once the Present of a challenge
\* has returned nil its entry is in the record set for as long as no remove
\* call of that challenge's own CleanUp has been served.
C3_NoInterference ==
    \A r \in { <<1, 2, 3, 4>>, <<2, 1, 4, 3>> } :
        LET presentB == inv[r[2]]
            cleanA == inv[r[3]]
            cleanB == inv[r[4]]
        IN  /\ \A k \in StepsOf(cleanA, {"remove"}) :
                 cleanA.log[k].arg[2].Content # presentB.req.Key
            /\ (Succeeded(presentB) /\ ~Served(cleanB, "remove"))
                 => BagIn(presentB.acmeDnsEntry, In(records, presentB))

\* Present(B) added B's entry, CleanUp(A) removed A's, CleanUp(B) has
\* removed nothing, and B's entry is there
C3_Witness ==
    /\ Len(inv) = 4
    /\ Served(inv[2], "add")
    /\ Succeeded(inv[2])
    /\ Served(inv[3], "remove")
    /\ ~Served(inv[4], "remove")
    /\ BagIn(inv[2].acmeDnsEntry, In(records, inv[2]))

\* the configuration of v was decoded
Decoded(v) == Served(v, "config")

\* v has no inline key, and the referenced secret is not in the challenge's
\* namespace
SecretAbsent(v) ==
    /\ v.cfg.PrivateKey = ""
    /\ <<v.req.ResourceNamespace, v.cfg.PrivateKeySecretRef.Name>> \notin DOMAIN SecretStore

\* v has no inline key, and the referenced secret is there without the
\* referenced key
KeyAbsent(v) ==
    /\ v.cfg.PrivateKey = ""
    /\ <<v.req.ResourceNamespace, v.cfg.PrivateKeySecretRef.Name>> \in DOMAIN SecretStore
    /\ v.cfg.PrivateKeySecretRef.Key \notin
          DOMAIN SecretStore[<<v.req.ResourceNamespace, v.cfg.PrivateKeySecretRef.Name>>]

\* C5: with no inline key and the referenced secret missing from the
\* challenge's namespace, or there without the referenced key, Present and
\* CleanUp return an error and call the provider not once.
C5_MissingSecretFails ==
    \A i \in Slots :
        LET v == inv[i]
        IN  (Decoded(v) /\ (SecretAbsent(v) \/ KeyAbsent(v)))
            => /\ v.pc \in {"client", "done"}
               /\ Done(v) => v.err = "error"
               /\ ProviderCalls(v) = {}

\* an invocation whose secret lacks the referenced key has returned an error
C5_Witness ==
    LET v == inv[2]
    IN  /\ Decoded(v)
        /\ KeyAbsent(v)
        /\ StepsOf(v, {"secret"}) # {}
        /\ Done(v)
        /\ v.err = "error"

\* C6: a failed step other than the zone discovery is the last step of its
\* invocation, which has returned an error; an error is returned only for
\* such a step; a failed zone discovery leaves the caller's zone as the
\* domain name and returns nothing by itself.
C6_ErrorsPropagate ==
    \A i \in Slots :
        LET v == inv[i]
        IN  /\ \A k \in StepsOf(v, Fallible) :
                 ~v.log[k].ok => /\ k = Len(v.log)
                                 /\ Done(v)
                                 /\ v.err = "error"
            /\ (Done(v) /\ v.err = "error")
                 => /\ v.log[Len(v.log)].step \in Fallible
                    /\ ~v.log[Len(v.log)].ok
            /\ \A k \in StepsOf(v, {"zone"}) :
                 ~v.log[k].ok => v.domainName = v.req.ResolvedZone

\* the zone discovery failed and Present went on to add the entry and
\* returned nil
C6_Witness ==
    LET v == inv[2]
    IN  /\ v.op = "Present"
        /\ \E k \in StepsOf(v, {"zone"}) : ~v.log[k].ok
        /\ Served(v, "add")
        /\ Succeeded(v)

\* every provider call of an invocation names the domain extractDomainName
\* returned: the caller's zone after a failed discovery, else the discovered
\* zone without its trailing dot
DomainUsedInCalls ==
    \A i \in Slots :
        LET v == inv[i]
        IN  /\ \A k \in ProviderCalls(v) : v.log[k].arg[1] = v.domainName
            /\ \A k \in StepsOf(v, {"zone"}) :
                 v.domainName = IF v.log[k].ok
                                THEN UnFqdn(v.log[k].arg[2])
                                ELSE v.req.ResolvedZone

\* C8: with an inline key, that key is the credential handed to the client
\* and no secret is read; a secret is read only without an inline key, by
\* the referenced name in the challenge's namespace, and its referenced key
\* is then the credential.
C8_PrefersInline ==
    \A i \in Slots :
        LET v == inv[i]
            ref == v.cfg.PrivateKeySecretRef
        IN  /\ v.cfg.PrivateKey # ""
                 => /\ StepsOf(v, {"secret"}) = {}
                    /\ \A k \in StepsOf(v, {"client"}) :
                         v.log[k].arg[2] = v.cfg.PrivateKey
            /\ \A k \in StepsOf(v, {"secret"}) :
                 /\ v.cfg.PrivateKey = ""
                 /\ v.log[k].arg = <<v.req.ResourceNamespace, ref.Name, ref.Key>>
            /\ v.cfg.PrivateKey = ""
                 => \A k \in StepsOf(v, {"client"}) :
                      v.log[k].arg[2] = SecretStore[<<v.req.ResourceNamespace, ref.Name>>][ref.Key]

\* a client was made from the inline key although the configuration also
\* references a secret that exists
C8_Witness ==
    LET v == inv[2]
    IN  /\ v.cfg.PrivateKey # ""
        /\ <<v.req.ResourceNamespace, v.cfg.PrivateKeySecretRef.Name>> \in DOMAIN SecretStore
        /\ Served(v, "client")

\* C9: a CleanUp whose listing holds no entry equal to the target returns
\* nil, issues no remove call and leaves the record set as it was; a second
\* CleanUp of the same request after one that returned nil changes nothing;
\* no CleanUp issues more than one remove call.
C9_CleanUpIdempotent ==
    /\ \A i \in Slots :
         LET v == inv[i]
         IN  v.op = "CleanUp"
             => /\ Cardinality(StepsOf(v, {"remove"})) <= 1
                /\ (Done(v) /\ HasTarget(v) /\ ~BagIn(v.acmeDnsEntry, In(v.pre, v)))
                     => /\ Succeeded(v)
                        /\ StepsOf(v, {"remove"}) = {}
                        /\ v.post = v.pre
    /\ (/\ inv[1].op = "CleanUp"
        /\ inv[2].op = "CleanUp"
        /\ inv[1].req = inv[2].req
        /\ Succeeded(inv[1])
        /\ Done(inv[2]))
       => /\ inv[2].post = inv[1].post
          /\ StepsOf(inv[2], {"remove"}) = {}

\* the first CleanUp removed the entry, the second found nothing to remove
C9_Witness ==
    /\ inv[1].op = "CleanUp"
    /\ inv[2].op = "CleanUp"
    /\ inv[1].req = inv[2].req
    /\ Served(inv[1], "remove")
    /\ Succeeded(inv[1])
    /\ Succeeded(inv[2])

\* the two requests differ in nothing but their configuration
SameChallenge(r, q) ==
    /\ r.ResolvedFQDN = q.ResolvedFQDN
    /\ r.ResolvedZone = q.ResolvedZone
    /\ r.Key = q.Key

\* C10: after a Present that returned nil from a record set without the
\* target, a CleanUp of the same request that returned nil leaves the
\* record set as it was before the Present; a CleanUp whose configuration
\* has another ttl leaves the entry Present added in the record set.
C10_PresentThenCleanUp ==
    LET present == inv[1]
        cleanup == inv[2]
    IN  (/\ present.op = "Present"
         /\ cleanup.op = "CleanUp"
         /\ Succeeded(present)
         /\ Succeeded(cleanup)
         /\ SameChallenge(present.req, cleanup.req)
         /\ ~BagIn(present.acmeDnsEntry, In(present.pre, present)))
        => /\ present.req = cleanup.req => cleanup.post = present.pre
           /\ present.cfg.TTL # cleanup.cfg.TTL
                => BagIn(present.acmeDnsEntry, In(cleanup.post, present))

\* Present added the entry and a CleanUp of the same request removed it
C10_Witness ==
    /\ inv[1].op = "Present"
    /\ inv[2].op = "CleanUp"
    /\ inv[1].req = inv[2].req
    /\ Served(inv[1], "add")
    /\ Succeeded(inv[1])
    /\ Served(inv[2], "remove")
    /\ Succeeded(inv[2])

\* Present added the entry and a CleanUp with another ttl returned nil
C10_OtherTTL ==
    /\ inv[1].op = "Present"
    /\ inv[2].op = "CleanUp"
    /\ SameChallenge(inv[1].req, inv[2].req)
    /\ inv[1].cfg.TTL # inv[2].cfg.TTL
    /\ Served(inv[1], "add")
    /\ Succeeded(inv[1])
    /\ Succeeded(inv[2])

\* the name with the suffix "."+zone+"." taken off its end, where it ends so
StripZone(fqdn, domain) ==
    LET suffix == <<Dot>> \o UnFqdn(domain) \o <<Dot>>
        cut == Len(fqdn) - Len(suffix)
    IN  IF cut >= 0 /\ HasAt(fqdn, suffix, cut) THEN SubSeq(fqdn, 1, cut) ELSE fqdn

\* C4: for a name <relative>.<zone>. and the resolved zone <zone>,
\* extractRecordName returns exactly <relative>: the name with the zone
\* suffix, and nothing else, stripped.
C4_StripsZoneSuffix ==
    (nm.pc = "named" /\ ~nm.found.err)
        => nm.name = StripZone(nm.fqdn, nm.domain)

\* C7: after a failed discovery the domain is the caller's zone, after a
\* successful one the discovered zone without its trailing dot, and in both
\* cases the record name of <relative>.<zone>. under that zone is <relative>.
C7_FallbackAndName ==
    nm.pc = "named"
        => /\ nm.domain = IF nm.found.err THEN nm.zone ELSE UnFqdn(nm.found.authZone)
           /\ nm.name = StripZone(nm.fqdn, nm.domain)

\* the first half of C7 alone
C7_DomainOnly ==
    nm.pc \in {"resolved", "named"}
        => nm.domain = IF nm.found.err THEN nm.zone ELSE UnFqdn(nm.found.authZone)

====
